---------------------------- MODULE Spec2Model ----------------------------
(***************************************************************************)
(* Model of the quiz generator's normalisation and grading code            *)
(* (src/app.py, the Streamlit app, and src/local_gemini_quiz.py, the       *)
(* terminal app).  Text is a sequence of one-character strings; a Python   *)
(* list is a sequence; a call that raises yields a value whose kind is     *)
(* "raise".                                                                *)
(***************************************************************************)
EXTENDS Integers, Sequences, FiniteSets, TLC

VARIABLES pc, impl, text, data, count, options_per_q, mcqs, user_ans, widgets, ret

vars == <<pc, impl, text, data, count, options_per_q, mcqs, user_ans, widgets, ret>>

(* The two programs that carry their own copy of each function. *)
Impls == {"app", "cli"}

None == [kind |-> "none"]

(***************************************************************************)
(* Bounds of the explored inputs.                                          *)
(***************************************************************************)
MaxQuestions == 2

(***************************************************************************)
(* Python built-ins used by the code.                                      *)
(***************************************************************************)
RECURSIVE BSeq(_, _)
BSeq(S, n) == IF n = 0 THEN {<<>>}
              ELSE BSeq(S, n - 1) \cup {Append(s, x) : s \in BSeq(S, n - 1), x \in S}

Min2(a, b) == IF a <= b THEN a ELSE b
Max2(a, b) == IF a >= b THEN a ELSE b

ToSet(s) == {s[i] : i \in 1..Len(s)}

RECURSIVE Insert(_, _)
Insert(s, x) == IF s = <<>> THEN <<x>>
                ELSE IF x < Head(s) THEN <<x>> \o s
                ELSE <<Head(s)>> \o Insert(Tail(s), x)

(* sorted(list): ascending, duplicates kept *)
RECURSIVE sorted(_)
sorted(s) == IF s = <<>> THEN <<>> ELSE Insert(sorted(Tail(s)), Head(s))

RECURSIVE SetToSorted(_)
SetToSorted(S) == IF S = {} THEN <<>>
                  ELSE LET m == CHOOSE x \in S : \A y \in S : x <= y
                       IN <<m>> \o SetToSorted(S \ {m})

(* zip(a, b): stops at the shorter argument *)
zip(a, b) == [i \in 1..Min2(Len(a), Len(b)) |-> <<a[i], b[i]>>]

(***************************************************************************)
(* grade_locally                                                           *)
(***************************************************************************)
RECURSIVE CountOk(_)
CountOk(flags) == IF flags = <<>> THEN 0
                  ELSE (IF Head(flags) THEN 1 ELSE 0) + CountOk(Tail(flags))

OkDropsSubsetCheck(ps, cs) == cs \subseteq ps

(* app.py:77, local_gemini_quiz.py:168: exact set equality *)
SetsEqual(ps, cs) == ps = cs

grade_locally_app(ms, ans) ==
    LET pairs == zip(ms, ans)
        results == [i \in 1..Len(pairs) |->
                      LET q == pairs[i][1]
                          picks == pairs[i][2]
                      IN [num |-> i, question |-> q.question, options |-> q.options,
                          your |-> sorted(picks),
                          correct |-> sorted(q.correct_indices),
                          ok |-> SetsEqual(ToSet(picks), ToSet(q.correct_indices))]]
    IN [kind |-> "return", results |-> results,
        score |-> CountOk([i \in 1..Len(results) |-> results[i].ok]),
        total |-> Len(ms)]

grade_locally_cli(ms, ans) ==
    LET pairs == zip(ms, ans)
        results == [i \in 1..Len(pairs) |->
                      LET q == pairs[i][1]
                          a == pairs[i][2]
                      IN [number |-> i, question |-> q.question, options |-> q.options,
                          your_indices |-> sorted(a),
                          correct_indices |-> sorted(q.correct_indices),
                          is_correct |-> SetsEqual(ToSet(a), ToSet(q.correct_indices))]]
    IN [kind |-> "return", results |-> results,
        score |-> CountOk([i \in 1..Len(results) |-> results[i].is_correct]),
        total |-> Len(ms)]

(***************************************************************************)
(* Specification of grade_locally: any MCQ list, any selection list.       *)
(***************************************************************************)
OptionTexts(n) == [i \in 1..n |-> <<"o">>]

IndexLists(n) == {SetToSorted(S) : S \in SUBSET (0..(n - 1))}

(* three options: enough for a strict subset, a strict superset and an
   overlap of a key *)
GradeMcqs == {[question |-> <<"q">>, options |-> OptionTexts(3),
               correct_indices |-> c] : c \in IndexLists(3) \ {<<>>}}

InitGrade ==
    /\ pc = "call"
    /\ impl = "none"
    /\ \E n \in 0..MaxQuestions : mcqs \in [1..n -> GradeMcqs]
    /\ \E n \in 0..MaxQuestions : user_ans \in [1..n -> IndexLists(3)]
    /\ text = <<>>
    /\ data = <<>>
    /\ count = 0
    /\ options_per_q = 3
    /\ widgets = <<>>
    /\ ret = None

GradeApp ==
    /\ pc = "call"
    /\ pc' = "done"
    /\ impl' = "app"
    /\ ret' = grade_locally_app(mcqs, user_ans)
    /\ UNCHANGED <<text, data, count, options_per_q, mcqs, user_ans, widgets>>

GradeCli ==
    /\ pc = "call"
    /\ pc' = "done"
    /\ impl' = "cli"
    /\ ret' = grade_locally_cli(mcqs, user_ans)
    /\ UNCHANGED <<text, data, count, options_per_q, mcqs, user_ans, widgets>>

NextGrade == GradeApp \/ GradeCli

SpecGrade == InitGrade /\ [][NextGrade]_vars

Graded == pc = "done" /\ ret.kind = "return"

(* the per-question flag and lists under either program's field names *)
Flag(r) == IF impl = "app" THEN r.ok ELSE r.is_correct

(* C1: with selections of the same length as the MCQ list, position i is
   marked correct exactly when the selected set equals the correct set; the
   score is the number of positions marked correct and total is n. *)
C1_ExactSetGrading ==
    (pc = "done" /\ Len(user_ans) = Len(mcqs)) =>
        /\ ret.kind = "return"
        /\ Len(ret.results) = Len(mcqs)
        /\ \A i \in 1..Len(mcqs) :
              Flag(ret.results[i]) <=>
                 (ToSet(user_ans[i]) = ToSet(mcqs[i].correct_indices))
        /\ ret.score = Cardinality({i \in 1..Len(mcqs) : Flag(ret.results[i])})
        /\ ret.total = Len(mcqs)

(* two questions, one answered with a strict subset of the key (marked
   incorrect) and one answered exactly (marked correct) *)
C1_Witness ==
    /\ Graded
    /\ Len(mcqs) = 2 /\ Len(user_ans) = 2
    /\ ToSet(user_ans[1]) # {}
    /\ ToSet(user_ans[1]) \subseteq ToSet(mcqs[1].correct_indices)
    /\ ToSet(user_ans[1]) # ToSet(mcqs[1].correct_indices)
    /\ ~Flag(ret.results[1])
    /\ Flag(ret.results[2])
    /\ ret.score = 1

(* C2: grade_locally never returns a result whose per-question list is
   shorter than total (a length mismatch raises instead). *)
C2_NoSilentTruncation ==
    Graded => Len(ret.results) >= ret.total


(***************************************************************************)
(* request_mcqs: validation of the parsed array (the loop after json.loads)*)
(***************************************************************************)
MaxData == 2

(* str.strip() removes these *)
Whitespace == {" ", "\n", "\t", "\r"}

RECURSIVE lstrip(_)
lstrip(s) == IF s # <<>> /\ Head(s) \in Whitespace THEN lstrip(Tail(s)) ELSE s

RECURSIVE rstrip(_)
rstrip(s) == IF s # <<>> /\ s[Len(s)] \in Whitespace
             THEN rstrip(SubSeq(s, 1, Len(s) - 1)) ELSE s

(* str.strip() *)
strip(s) == rstrip(lstrip(s))

(* seq[:n] for n >= 0 *)
Prefix(s, n) == SubSeq(s, 1, Min2(n, Len(s)))

(* dict.get(key, default) *)
get(item, key, default) == IF key \in DOMAIN item THEN item[key] ELSE default

Digits == <<"0", "1", "2", "3", "4", "5", "6", "7", "8", "9">>
DigitValue(c) == (CHOOSE d \in 1..10 : Digits[d] = c) - 1
IsDigit(c) == \E d \in 1..10 : Digits[d] = c

RECURSIVE DecimalValue(_, _)
DecimalValue(s, acc) == IF s = <<>> THEN acc
                        ELSE DecimalValue(Tail(s), 10 * acc + DigitValue(Head(s)))

(* int(x) of a JSON value: an int is itself, a float (number of halves) is
   truncated toward zero, a string is parsed as an optionally signed decimal
   after stripping, anything else raises *)
int(x) ==
    CASE x.t = "int" -> [kind |-> "return", n |-> x.n]
      [] x.t = "float" ->
           [kind |-> "return",
            n |-> IF x.n >= 0 THEN x.n \div 2 ELSE 0 - ((0 - x.n) \div 2)]
      [] x.t = "str" ->
           LET s == strip(x.s)
               neg == s # <<>> /\ Head(s) = "-"
               body == IF s # <<>> /\ Head(s) \in {"-", "+"} THEN Tail(s) ELSE s
           IN IF body # <<>> /\ \A i \in 1..Len(body) : IsDigit(body[i])
              THEN [kind |-> "return",
                    n |-> IF neg THEN 0 - DecimalValue(body, 0)
                          ELSE DecimalValue(body, 0)]
              ELSE [kind |-> "raise", exc |-> "ValueError"]
      [] OTHER -> [kind |-> "raise", exc |-> "TypeError"]

(* the coercion of every element, in order: the first failure raises *)
CoerceAll(raw) ==
    IF \E i \in 1..Len(raw) : int(raw[i]).kind = "raise"
    THEN [kind |-> "raise",
          exc |-> int(raw[CHOOSE i \in 1..Len(raw) :
                             /\ int(raw[i]).kind = "raise"
                             /\ \A j \in 1..(i - 1) : int(raw[j]).kind = "return"]).exc]
    ELSE [kind |-> "return", ns |-> [i \in 1..Len(raw) |-> int(raw[i]).n]]

InRangeOffByOne(i, opq) == 0 <= i /\ i <= opq

(* 0 <= i < options_per_q *)
InRange(i, opq) == 0 <= i /\ i < opq

DefaultKeyEmpty == <<>>

(* the key a record with no usable index gets *)
DefaultKey == <<0>>

TakeAll(d, n) == d

(* data[:count] *)
Truncated(d, n) == Prefix(d, n)

(* not q["question"] or len(q["options"]) != options_per_q *)
Rejected(question, options, opq) == question = <<>> \/ Len(options) # opq

(* one pass of the loop body of app.py:59-68: "raise", "continue" or "append" *)
LoopBody_app(item, opq) ==
    LET question == strip(get(item, "question", <<>>))
        raw_options == get(item, "options", <<>>)
        options == Prefix([i \in 1..Len(raw_options) |-> strip(raw_options[i])], opq)
        coerced == CoerceAll(get(item, "correct_indices", <<>>))
    IN IF coerced.kind = "raise" THEN [kind |-> "raise", exc |-> coerced.exc]
       ELSE LET correct_indices == SetToSorted(ToSet(coerced.ns))
                kept == SelectSeq(correct_indices, LAMBDA i : InRange(i, opq))
            IN IF Rejected(question, options, opq) THEN [kind |-> "continue"]
               ELSE [kind |-> "append",
                     q |-> [question |-> question, options |-> options,
                            correct_indices |->
                               IF kept # <<>> THEN kept ELSE DefaultKey]]

(* one pass of the loop body of local_gemini_quiz.py:114-127 *)
LoopBody_cli(item, opq) ==
    LET question == strip(get(item, "question", <<>>))
        raw_options == get(item, "options", <<>>)
        options == Prefix([i \in 1..Len(raw_options) |-> strip(raw_options[i])], opq)
        coerced == CoerceAll(get(item, "correct_indices", <<>>))
    IN IF coerced.kind = "raise" THEN [kind |-> "raise", exc |-> coerced.exc]
       ELSE IF Rejected(question, options, opq) THEN [kind |-> "continue"]
       ELSE LET kept == SetToSorted({i \in ToSet(coerced.ns) : InRange(i, opq)})
            IN [kind |-> "append",
                q |-> [question |-> question, options |-> options,
                       correct_indices |->
                          IF kept # <<>> THEN kept ELSE DefaultKey]]

LoopBody(im, item, opq) ==
    IF im = "app" THEN LoopBody_app(item, opq) ELSE LoopBody_cli(item, opq)

(* the loop over data[:count]: stops at the first element that raises *)
RECURSIVE Loop(_, _, _, _)
Loop(im, items, opq, acc) ==
    IF items = <<>> THEN [kind |-> "return", mcqs |-> acc]
    ELSE LET r == LoopBody(im, Head(items), opq)
         IN CASE r.kind = "raise" -> [kind |-> "raise", exc |-> r.exc]
              [] r.kind = "continue" -> Loop(im, Tail(items), opq, acc)
              [] OTHER -> Loop(im, Tail(items), opq, Append(acc, r.q))

EmptyCheckSkipped(r) == r

(* if not mcqs: raise RuntimeError *)
EmptyCheck(r) ==
    IF r.kind = "return" /\ r.mcqs = <<>>
    THEN [kind |-> "raise", exc |-> "RuntimeError"] ELSE r

(* request_mcqs from the parsed array on *)
normalize_mcqs(im, d, n, opq) == EmptyCheck(Loop(im, Truncated(d, n), opq, <<>>))


(***************************************************************************)
(* Specification of the validation: any parsed array of objects.           *)
(***************************************************************************)
(* elements a model may put in "correct_indices": -1, 0.5, " 1", the option
   count itself, and a string that is no number *)
RawIndices(opq) ==
    {[t |-> "int", n |-> 0 - 1, s |-> <<>>],
     [t |-> "float", n |-> 1, s |-> <<>>],
     [t |-> "str", n |-> 0, s |-> <<" ", "1">>],
     [t |-> "int", n |-> opq, s |-> <<>>],
     [t |-> "str", n |-> 0, s |-> <<"x">>]}

RawOptions(n) == [i \in 1..n |-> <<Digits[i + 1], " ">>]

Dict(question, options, indices) ==
    [k \in {"question" : x \in question} \cup {"options"}
             \cup {"correct_indices" : x \in indices} |->
        CASE k = "question" -> CHOOSE x \in question : TRUE
          [] k = "options" -> options
          [] OTHER -> CHOOSE x \in indices : TRUE]

(* objects that pass the question and option-count test: with the required
   number of options and any key list, or with one option too many *)
UsableItems(opq) ==
    {Dict({<<" ", "a">>}, RawOptions(opq), c) :
        c \in {{}} \cup {{x} : x \in BSeq(RawIndices(opq), 2)}}
    \cup
    {Dict({<<" ", "a">>}, RawOptions(opq + 1), c) :
        c \in {{}, {<<[t |-> "str", n |-> 0, s |-> <<" ", "1">>],
                      [t |-> "float", n |-> 1, s |-> <<>>]>>}}}

(* objects that fail it: no or blank question, too few options *)
MalformedItems(opq) ==
    {Dict(q, RawOptions(n), c) :
        q \in {{}, {<<" ">>}, {<<" ", "a">>}},
        n \in {opq - 1, opq, opq + 1},
        c \in {{}, {<<[t |-> "str", n |-> 0, s |-> <<"x">>]>>}}}
    \ UsableItems(opq)

Items(opq) == UsableItems(opq) \cup MalformedItems(opq)

InitMcq ==
    /\ pc = "call"
    /\ impl = "none"
    /\ options_per_q = 2
    /\ count \in 1..MaxData
    /\ \E n \in 0..MaxData : data \in [1..n -> Items(options_per_q)]
    /\ text = <<>>
    /\ mcqs = <<>>
    /\ user_ans = <<>>
    /\ widgets = <<>>
    /\ ret = None

NormalizeApp ==
    /\ pc = "call"
    /\ pc' = "done"
    /\ impl' = "app"
    /\ ret' = normalize_mcqs("app", data, count, options_per_q)
    /\ UNCHANGED <<text, data, count, options_per_q, mcqs, user_ans, widgets>>

NormalizeCli ==
    /\ pc = "call"
    /\ pc' = "done"
    /\ impl' = "cli"
    /\ ret' = normalize_mcqs("cli", data, count, options_per_q)
    /\ UNCHANGED <<text, data, count, options_per_q, mcqs, user_ans, widgets>>

NextMcq == NormalizeApp \/ NormalizeCli

SpecMcq == InitMcq /\ [][NextMcq]_vars


Normalized == pc = "done" /\ ret.kind = "return"

(* the elements of the parsed array the call may look at *)
Seen == 1..Min2(count, Len(data))

(* what the claims say of an element, stated on the raw object *)
HasQuestion(item) ==
    /\ "question" \in DOMAIN item
    /\ \E i \in 1..Len(item.question) : item.question[i] \notin Whitespace

Valid(item) == HasQuestion(item) /\ Len(item.options) >= options_per_q

RawKey(item) ==
    IF "correct_indices" \in DOMAIN item THEN item.correct_indices ELSE <<>>

Numeric(x) == x.t \in {"int", "float"} \/ (x.t = "str" /\ x.s = <<" ", "1">>)

(* -1 and the option count are themselves, 0.5 is 0 and " 1" is 1 *)
NumberOf(x) == CASE x.t = "int" -> x.n
                 [] x.t = "float" -> 0
                 [] OTHER -> 1

Coercible(item) == \A i \in 1..Len(RawKey(item)) : Numeric(RawKey(item)[i])

UsableIndices(item) ==
    {n \in 0..(options_per_q - 1) :
        \E i \in 1..Len(RawKey(item)) :
            Numeric(RawKey(item)[i]) /\ NumberOf(RawKey(item)[i]) = n}

StrictlyIncreasing(s) == \A i \in 1..(Len(s) - 1) : s[i] < s[i + 1]

(* positions of the valid elements among the seen ones, in order *)
ValidPositions == SetToSorted({i \in Seen : Valid(data[i])})

(* C3: every returned record has a non-empty trimmed question, exactly
   options_per_q options (the first options_per_q of a record that had at
   least that many), and strictly increasing correct_indices inside
   [0, options_per_q). *)
C3_RecordInvariant ==
    Normalized =>
        \A k \in 1..Len(ret.mcqs) :
            LET r == ret.mcqs[k]
            IN /\ r.question # <<>>
               /\ Head(r.question) \notin Whitespace
               /\ r.question[Len(r.question)] \notin Whitespace
               /\ Len(r.options) = options_per_q
               /\ \E i \in Seen :
                     /\ Len(data[i].options) >= options_per_q
                     /\ \A j \in 1..options_per_q :
                           r.options[j] = <<Head(data[i].options[j])>>
               /\ StrictlyIncreasing(r.correct_indices)
               /\ \A j \in 1..Len(r.correct_indices) :
                     r.correct_indices[j] \in 0..(options_per_q - 1)

(* a record with one option too many and the raw key [" 1", 0.5] comes back
   with options_per_q options and the key [0, 1] *)
C3_Witness ==
    /\ Normalized
    /\ Len(data) >= 1 /\ Valid(data[1])
    /\ Len(data[1].options) = options_per_q + 1
    /\ Len(RawKey(data[1])) = 2
    /\ RawKey(data[1])[1].t = "str" /\ RawKey(data[1])[2].t = "float"
    /\ Len(ret.mcqs[1].options) = options_per_q
    /\ ret.mcqs[1].correct_indices = <<0, 1>>

NoUsableIndex(item) ==
    \A i \in 1..Len(RawKey(item)) :
        /\ RawKey(item)[i].t = "int"
        /\ RawKey(item)[i].n \notin 0..(options_per_q - 1)

(* C4: a valid record whose correct_indices are missing, empty or all out of
   range is kept with correct_indices [0] (the call returns whenever every
   seen key is numeric), and no returned record has an empty key. *)
C4_EmptyKeyRepair ==
    /\ (/\ pc = "done"
        /\ \A i \in Seen : Coercible(data[i])
        /\ \E j \in Seen : Valid(data[j]))
         => ret.kind = "return"
    /\ Normalized =>
         /\ Len(ret.mcqs) = Len(ValidPositions)
         /\ \A k \in 1..Len(ValidPositions) :
               NoUsableIndex(data[ValidPositions[k]])
                  => ret.mcqs[k].correct_indices = <<0>>
         /\ \A k \in 1..Len(ret.mcqs) : ret.mcqs[k].correct_indices # <<>>

(* a record whose only index is the option count, after a record with no
   key at all: both come back with [0] *)
C4_Witness ==
    /\ Normalized
    /\ Len(data) = 2 /\ count = 2
    /\ Valid(data[1]) /\ Valid(data[2])
    /\ "correct_indices" \notin DOMAIN data[1]
    /\ Len(RawKey(data[2])) = 1 /\ RawKey(data[2])[1].n = options_per_q
    /\ ret.mcqs[1].correct_indices = <<0>>
    /\ ret.mcqs[2].correct_indices = <<0>>

ExpectedKey(item) ==
    IF UsableIndices(item) = {} THEN {0} ELSE UsableIndices(item)

(* C5: the returned list is the valid records among the first count
   elements, in their order: never more than count records, none from
   position count or later, exactly count when the first count are valid. *)
C5_FirstCountOnly ==
    Normalized =>
        /\ Len(ret.mcqs) = Len(ValidPositions)
        /\ Len(ret.mcqs) <= count
        /\ \A k \in 1..Len(ValidPositions) :
              ToSet(ret.mcqs[k].correct_indices) = ExpectedKey(data[ValidPositions[k]])
        /\ (Len(data) >= count /\ \A i \in 1..count : Valid(data[i]))
              => Len(ret.mcqs) = count

(* count = 1, the only seen element valid, and a second valid element with a
   different key left out *)
C5_Witness ==
    /\ Normalized
    /\ count = 1 /\ Len(data) = 2
    /\ Valid(data[1]) /\ Valid(data[2])
    /\ Coercible(data[2])
    /\ ExpectedKey(data[1]) = {1} /\ ExpectedKey(data[2]) = {0}
    /\ Len(ret.mcqs) = 1
    /\ ret.mcqs[1].correct_indices = <<1>>

(* C6: when no seen element is valid the call fails, and no call returns an
   empty list. *)
C6_EmptyResultFails ==
    /\ (pc = "done" /\ (\A i \in Seen : ~Valid(data[i]))) => ret.kind = "raise"
    /\ Normalized => ret.mcqs # <<>>

(* the only seen element is dropped, a valid one lies past count, and the
   call raises the empty-result error *)
C6_Witness ==
    /\ pc = "done"
    /\ count = 1 /\ Len(data) = 2
    /\ ~Valid(data[1]) /\ Coercible(data[1])
    /\ Valid(data[2])
    /\ ret.kind = "raise" /\ ret.exc = "RuntimeError"

(* C7: a malformed record is dropped whatever its correct_indices hold: when
   every seen element with a key that is no number is malformed and some
   seen element is valid, the call returns the valid ones. *)
C7_MalformedDropped ==
    (/\ pc = "done"
     /\ \A i \in Seen : Valid(data[i]) => Coercible(data[i])
     /\ \E i \in Seen : Valid(data[i]))
        => /\ ret.kind = "return"
           /\ Len(ret.mcqs) = Len(ValidPositions)


(***************************************************************************)
(* _extract_json                                                           *)
(***************************************************************************)
(* str.find(c) and str.rfind(c): zero-based position, -1 when absent *)
find(s, c) ==
    IF \E i \in 1..Len(s) : s[i] = c
    THEN (CHOOSE i \in 1..Len(s) : s[i] = c /\ \A j \in 1..(i - 1) : s[j] # c) - 1
    ELSE 0 - 1

rfind(s, c) ==
    IF \E i \in 1..Len(s) : s[i] = c
    THEN (CHOOSE i \in 1..Len(s) : s[i] = c /\ \A j \in (i + 1)..Len(s) : s[j] # c) - 1
    ELSE 0 - 1

(* s[a:b] for 0 <= a, b *)
Slice(s, a, b) == SubSeq(s, a + 1, Min2(b, Len(s)))

StartsWithAt(s, i, w) ==
    /\ i + Len(w) - 1 <= Len(s)
    /\ \A k \in 1..Len(w) : s[i + k - 1] = w[k]

RECURSIVE SpaceRun(_, _)
(* the length of the run of whitespace that starts at position i *)
SpaceRun(s, i) == IF i <= Len(s) /\ s[i] \in Whitespace
                  THEN 1 + SpaceRun(s, i + 1) ELSE 0

(* the grave accent, which a TLA+ string cannot hold *)
Backtick == "GRAVE"

Fence == <<Backtick, Backtick, Backtick>>

(* ^ and $ under re.MULTILINE *)
AtLineStart(s, i) == i = 1 \/ s[i - 1] = "\n"
AtLineEnd(s, i) == i > Len(s) \/ s[i] = "\n"

(* length of a match of ^```(?:json)?\s* at i, 0 when there is none *)
MatchOpenFence(s, i) ==
    IF AtLineStart(s, i) /\ StartsWithAt(s, i, Fence)
    THEN LET tag == IF StartsWithAt(s, i + 3, <<"j", "s", "o", "n">>) THEN 4 ELSE 0
         IN 3 + tag + SpaceRun(s, i + 3 + tag)
    ELSE 0

(* length of a match of \s*```$ at i, 0 when there is none *)
MatchCloseFence(s, i) ==
    LET k == SpaceRun(s, i)
    IN IF StartsWithAt(s, i + k, Fence) /\ AtLineEnd(s, i + k + 3)
       THEN k + 3 ELSE 0

RECURSIVE SubFences(_, _)
(* re.sub(pattern, "", s): leftmost matches, first alternative first *)
SubFences(s, i) ==
    IF i > Len(s) THEN <<>>
    ELSE IF MatchOpenFence(s, i) > 0 THEN SubFences(s, i + MatchOpenFence(s, i))
    ELSE IF MatchCloseFence(s, i) > 0 THEN SubFences(s, i + MatchCloseFence(s, i))
    ELSE <<s[i]>> \o SubFences(s, i + 1)

EndAtFirstCloser(t) ==
    LET first(c) == find(t, c)
    IN IF first("}") = 0 - 1 THEN first("]")
       ELSE IF first("]") = 0 - 1 THEN first("}")
       ELSE Min2(first("}"), first("]"))

(* max(text.rfind("}"), text.rfind("]")) *)
EndOf(t) == Max2(rfind(t, "}"), rfind(t, "]"))

(* min of the found positions of "{" and "[", -1 when neither is found *)
StartOf(t) ==
    LET found == {i \in {find(t, "{"), find(t, "[")} : i # 0 - 1}
    IN IF found = {} THEN 0 - 1 ELSE CHOOSE i \in found : \A j \in found : i <= j

_extract_json(raw_text) ==
    LET t == SubFences(strip(raw_text), 1)
        start == StartOf(t)
        end == EndOf(t)
    IN IF start = 0 - 1 THEN t
       ELSE IF end # 0 - 1 /\ end >= start THEN Slice(t, start, end + 1)
       ELSE t


(***************************************************************************)
(* JSON values and json.loads (integers, strings without escapes, the      *)
(* three literals, arrays and objects)                                     *)
(***************************************************************************)
JInt(k) == [t |-> "int", n |-> k, s |-> <<>>, items |-> <<>>]
JStr(cs) == [t |-> "str", n |-> 0, s |-> cs, items |-> <<>>]
JLit(name) == [t |-> name, n |-> 0, s |-> <<>>, items |-> <<>>]
JList(vs) == [t |-> "list", n |-> 0, s |-> <<>>, items |-> vs]
(* a dict keeps its members as key, value, key, value, ... *)
JDict(kvs) == [t |-> "dict", n |-> 0, s |-> <<>>, items |-> kvs]

Quote == "\""

Failed == [ok |-> FALSE, v |-> JLit("null"), i |-> 0]
Parsed(val, next) == [ok |-> TRUE, v |-> val, i |-> next]

RECURSIVE SkipSpace(_, _)
SkipSpace(s, i) == IF i <= Len(s) /\ s[i] \in Whitespace
                   THEN SkipSpace(s, i + 1) ELSE i

RECURSIVE DigitRun(_, _)
DigitRun(s, i) == IF i <= Len(s) /\ IsDigit(s[i]) THEN 1 + DigitRun(s, i + 1) ELSE 0

(* d[key] = value: a repeated key keeps its place and takes the new value *)
SetMember(kvs, key, val) ==
    IF \E j \in 1..(Len(kvs) \div 2) : kvs[2 * j - 1] = key
    THEN [j \in 1..Len(kvs) |->
            IF j % 2 = 0 /\ kvs[j - 1] = key THEN val ELSE kvs[j]]
    ELSE kvs \o <<key, val>>

ParseString(s, i) ==
    IF i <= Len(s) /\ s[i] = Quote /\ \E j \in (i + 1)..Len(s) : s[j] = Quote
    THEN LET close == CHOOSE j \in (i + 1)..Len(s) :
                         s[j] = Quote /\ \A k \in (i + 1)..(j - 1) : s[k] # Quote
             body == SubSeq(s, i + 1, close - 1)
         IN IF \E k \in 1..Len(body) : body[k] \in {"\n", "\t", "\r"}
            THEN Failed ELSE Parsed(JStr(body), close + 1)
    ELSE Failed

ParseNumber(s, i) ==
    LET neg == i <= Len(s) /\ s[i] = "-"
        from == IF neg THEN i + 1 ELSE i
        k == DigitRun(s, from)
        (* a leading zero ends the integer part *)
        used == IF k > 0 /\ s[from] = "0" THEN 1 ELSE k
        value == DecimalValue(SubSeq(s, from, from + used - 1), 0)
    IN IF used = 0 THEN Failed
       ELSE Parsed(JInt(IF neg THEN 0 - value ELSE value), from + used)

Literals == {<<"n", "u", "l", "l">>, <<"t", "r", "u", "e">>, <<"f", "a", "l", "s", "e">>}
LiteralName(w) == CASE w[1] = "n" -> "null" [] w[1] = "t" -> "true" [] OTHER -> "false"

RECURSIVE ParseValue(_, _)
RECURSIVE ParseElements(_, _, _)
RECURSIVE ParseMembers(_, _, _)

(* the value that starts at i, after optional whitespace *)
ParseValue(s, i0) ==
    LET i == SkipSpace(s, i0)
    IN IF i > Len(s) THEN Failed
       ELSE CASE s[i] = "[" ->
                   LET j == SkipSpace(s, i + 1)
                   IN IF j <= Len(s) /\ s[j] = "]" THEN Parsed(JList(<<>>), j + 1)
                      ELSE ParseElements(s, j, <<>>)
              [] s[i] = "{" ->
                   LET j == SkipSpace(s, i + 1)
                   IN IF j <= Len(s) /\ s[j] = "}" THEN Parsed(JDict(<<>>), j + 1)
                      ELSE ParseMembers(s, j, <<>>)
              [] s[i] = Quote -> ParseString(s, i)
              [] s[i] = "-" \/ IsDigit(s[i]) -> ParseNumber(s, i)
              [] \E w \in Literals : StartsWithAt(s, i, w) ->
                   LET w == CHOOSE x \in Literals : StartsWithAt(s, i, x)
                   IN Parsed(JLit(LiteralName(w)), i + Len(w))
              [] OTHER -> Failed

(* value (, value)* ] *)
ParseElements(s, i, acc) ==
    LET r == ParseValue(s, i)
        j == SkipSpace(s, r.i)
    IN IF ~r.ok \/ j > Len(s) THEN Failed
       ELSE IF s[j] = "]" THEN Parsed(JList(Append(acc, r.v)), j + 1)
       ELSE IF s[j] = "," THEN ParseElements(s, j + 1, Append(acc, r.v))
       ELSE Failed

(* "key" : value (, "key" : value)* } *)
ParseMembers(s, i0, acc) ==
    LET i == SkipSpace(s, i0)
        key == ParseString(s, i)
        colon == SkipSpace(s, key.i)
    IN IF ~key.ok \/ colon > Len(s) \/ s[colon] # ":" THEN Failed
       ELSE LET r == ParseValue(s, colon + 1)
                j == SkipSpace(s, r.i)
            IN IF ~r.ok \/ j > Len(s) THEN Failed
               ELSE IF s[j] = "}"
                    THEN Parsed(JDict(SetMember(acc, key.v, r.v)), j + 1)
               ELSE IF s[j] = ","
                    THEN ParseMembers(s, j + 1, SetMember(acc, key.v, r.v))
               ELSE Failed

(* json.loads(s): one value, whitespace around it, nothing else *)
json_loads(s) ==
    LET r == ParseValue(s, 1)
    IN IF r.ok /\ SkipSpace(s, r.i) > Len(s)
       THEN [kind |-> "return", v |-> r.v]
       ELSE [kind |-> "raise", exc |-> "JSONDecodeError"]

(***************************************************************************)
(* Compact JSON text of a value (the inputs of the extraction)             *)
(***************************************************************************)
RECURSIVE DecimalText(_)
DecimalText(k) == IF k < 10 THEN <<Digits[k + 1]>>
                  ELSE DecimalText(k \div 10) \o <<Digits[(k % 10) + 1]>>

RECURSIVE Dump(_)
RECURSIVE DumpJoin(_, _)
Dump(v) ==
    CASE v.t = "int" -> IF v.n < 0 THEN <<"-">> \o DecimalText(0 - v.n)
                        ELSE DecimalText(v.n)
      [] v.t = "str" -> <<Quote>> \o v.s \o <<Quote>>
      [] v.t = "list" -> <<"[">> \o DumpJoin(v.items, FALSE) \o <<"]">>
      [] v.t = "dict" -> <<"{">> \o DumpJoin(v.items, TRUE) \o <<"}">>
      [] v.t = "null" -> <<"n", "u", "l", "l">>
      [] v.t = "true" -> <<"t", "r", "u", "e">>
      [] OTHER -> <<"f", "a", "l", "s", "e">>

(* items separated by commas; in a dict every key is followed by a colon *)
DumpJoin(vs, members) ==
    IF vs = <<>> THEN <<>>
    ELSE IF members
         THEN Dump(vs[1]) \o <<":">> \o Dump(vs[2])
              \o (IF Len(vs) > 2 THEN <<",">> ELSE <<>>)
              \o DumpJoin(SubSeq(vs, 3, Len(vs)), TRUE)
         ELSE Dump(vs[1]) \o (IF Len(vs) > 1 THEN <<",">> ELSE <<>>)
              \o DumpJoin(Tail(vs), FALSE)

(***************************************************************************)
(* Specification of _extract_json on clean compact JSON.                   *)
(***************************************************************************)
MaxStrLen == 2

StringValues == {JStr(cs) : cs \in BSeq({"a", "{", "}", "[", "]"}, MaxStrLen)}
Scalars == StringValues \cup {JInt(0 - 1), JInt(20), JLit("null"), JLit("true")}
Flat == Scalars
          \cup {JList(vs) : vs \in BSeq(Scalars, 1)}
          \cup {JList(<<v, w>>) : v \in Scalars, w \in {JInt(20), JStr(<<"]">>)}}
          \cup {JDict(<<k, v>>) : k \in {JStr(<<>>), JStr(<<"]">>)}, v \in Scalars}
          \cup {JDict(<<>>)}
Nested == {JList(<<v>>) : v \in Flat}
            \cup {JDict(<<JStr(<<"a">>), v>>) : v \in Flat}
CleanJson == Flat \cup Nested

InitExtract ==
    /\ pc = "call"
    /\ impl = "none"
    /\ \E v \in CleanJson : text = Dump(v)
    /\ data = <<>>
    /\ count = 0
    /\ options_per_q = 0
    /\ mcqs = <<>>
    /\ user_ans = <<>>
    /\ widgets = <<>>
    /\ ret = None

Extract ==
    /\ pc = "call"
    /\ pc' = "done"
    /\ ret' = [kind |-> "return", text |-> _extract_json(text)]
    /\ UNCHANGED <<impl, text, data, count, options_per_q, mcqs, user_ans, widgets>>

NextExtract == Extract

SpecExtract == InitExtract /\ [][NextExtract]_vars

(* C9 as stated: on every clean compact JSON text, objects, arrays and
   scalars alike, the extraction returns the text itself. *)
C9_IdempotentOnAnyJson ==
    pc = "done" => ret.text = text

IsContainerText(s) == s # <<>> /\ Head(s) \in {"{", "["}

(* some closing bracket stands at or after the first opening bracket *)
CloserAfterOpener(s) ==
    \E i, j \in 1..Len(s) :
        i <= j /\ s[i] \in {"{", "["} /\ s[j] \in {"}", "]"}

(* C9 as the code has it: the extraction returns the text itself for every
   clean compact object or array, whatever its strings hold, and for every
   scalar in which no closing bracket follows an opening bracket; the text
   is valid JSON that parses back to the value it was written from. *)
C9_IdempotentOnContainers ==
    /\ pc = "call" => /\ json_loads(text).kind = "return"
                      /\ Dump(json_loads(text).v) = text
    /\ (pc = "done" /\ (IsContainerText(text) \/ ~CloserAfterOpener(text)))
          => ret.text = text

(* an object whose key holds "]" and whose string value holds "{" *)
C9_Witness ==
    /\ pc = "done"
    /\ Head(text) = "{"
    /\ \E i, j \in 2..(Len(text) - 1) : i < j /\ text[i] = "]" /\ text[j] = "{"
    /\ ret.text = text


(***************************************************************************)
(* request_explanations: from the response text to the returned list       *)
(***************************************************************************)
RECURSIVE py_repr(_)
RECURSIVE ReprJoin(_, _)
(* repr(x) of a loaded value; a string has no quote or backslash in it *)
py_repr(v) ==
    CASE v.t = "int" -> Dump(v)
      [] v.t = "str" -> <<"'">> \o v.s \o <<"'">>
      [] v.t = "list" -> <<"[">> \o ReprJoin(v.items, FALSE) \o <<"]">>
      [] v.t = "dict" -> <<"{">> \o ReprJoin(v.items, TRUE) \o <<"}">>
      [] v.t = "null" -> <<"N", "o", "n", "e">>
      [] v.t = "true" -> <<"T", "r", "u", "e">>
      [] OTHER -> <<"F", "a", "l", "s", "e">>

ReprJoin(vs, members) ==
    IF vs = <<>> THEN <<>>
    ELSE IF members
         THEN py_repr(vs[1]) \o <<":", " ">> \o py_repr(vs[2])
              \o (IF Len(vs) > 2 THEN <<",", " ">> ELSE <<>>)
              \o ReprJoin(SubSeq(vs, 3, Len(vs)), TRUE)
         ELSE py_repr(vs[1]) \o (IF Len(vs) > 1 THEN <<",", " ">> ELSE <<>>)
              \o ReprJoin(Tail(vs), FALSE)

(* str(x) *)
str(v) == IF v.t = "str" THEN v.s ELSE py_repr(v)

LineBreaks == {"\n", "\r"}

RECURSIVE splitlines(_, _)
(* the lines of s, cur being the line collected so far *)
splitlines(s, cur) ==
    IF s = <<>> THEN (IF cur = <<>> THEN <<>> ELSE <<cur>>)
    ELSE IF Head(s) \in LineBreaks THEN <<cur>> \o splitlines(Tail(s), <<>>)
    ELSE splitlines(Tail(s), Append(cur, Head(s)))

(* [line.strip() for line in text.splitlines() if line.strip()] *)
FallbackLines(t) ==
    LET stripped == [i \in 1..Len(splitlines(t, <<>>)) |-> strip(splitlines(t, <<>>)[i])]
        kept == SelectSeq(stripped, LAMBDA line : line # <<>>)
    IN JList([i \in 1..Len(kept) |-> JStr(kept[i])])

HasLen(v) == v.t \in {"list", "dict", "str"}

(* len(x) of a list, a dict or a string *)
len(v) == CASE v.t = "list" -> Len(v.items)
            [] v.t = "dict" -> Len(v.items) \div 2
            [] OTHER -> Len(v.s)

(* try: json.loads(raw) / except: the non-blank lines of the text *)
LoadedOrLines(loaded, t) ==
    IF loaded.kind = "raise" THEN FallbackLines(t) ELSE loaded.v

(* arr += [""] * (m - len(arr)) on a list shorter than m *)
Pad(arr, m) ==
    JList(arr.items \o [i \in 1..(m - Len(arr.items)) |-> JStr(<<>>)])

(* the tail of request_explanations, app.py:103-110 and
   local_gemini_quiz.py:217-227 *)
normalize_explanations(t, ms) ==
    LET m == Len(ms)
        arr == LoadedOrLines(json_loads(_extract_json(t)), t)
    IN IF ~HasLen(arr) THEN [kind |-> "raise", exc |-> "TypeError"]
       ELSE IF len(arr) < m /\ arr.t # "list"
            THEN [kind |-> "raise", exc |-> "TypeError"]
       ELSE LET padded == IF len(arr) < m THEN Pad(arr, m) ELSE arr
            IN CASE padded.t = "list" ->
                      [kind |-> "return",
                       exps |-> [i \in 1..m |-> str(padded.items[i])]]
                 [] padded.t = "str" ->
                      [kind |-> "return",
                       exps |-> [i \in 1..m |-> <<padded.s[i]>>]]
                 [] OTHER -> [kind |-> "raise", exc |-> "TypeError"]

(***************************************************************************)
(* Specification of the explanation list: any response text, any MCQ list. *)
(***************************************************************************)
ExplValues ==
    {JList(vs) : vs \in BSeq({JStr(<<"a">>), JInt(1)}, MaxQuestions + 1)}
      \cup {JDict(<<>>), JDict(<<JStr(<<"a">>), JStr(<<"a">>)>>),
            JInt(5), JStr(<<"a", "b">>), JLit("null")}

Before == {<<>>, <<"a", " ">>, Fence \o <<"j", "s", "o", "n", "\n">>, Fence \o <<"\n">>}
After == {<<>>, <<"\n">> \o Fence, <<" ", "a">>}

ExplTexts ==
    {b \o Dump(v) \o a : b \in Before, v \in ExplValues, a \in After}
      \cup BSeq({"a", " ", "\n"}, 3)

InitExpl ==
    /\ pc = "call"
    /\ impl = "none"
    /\ text \in ExplTexts
    /\ \E n \in 0..MaxQuestions :
          mcqs = [i \in 1..n |-> [question |-> <<"q">>, options |-> OptionTexts(2),
                                   correct_indices |-> <<0>>]]
    /\ data = <<>>
    /\ count = 0
    /\ options_per_q = 2
    /\ user_ans = <<>>
    /\ widgets = <<>>
    /\ ret = None

ExplainApp ==
    /\ pc = "call"
    /\ pc' = "done"
    /\ impl' = "app"
    /\ ret' = normalize_explanations(text, mcqs)
    /\ UNCHANGED <<text, data, count, options_per_q, mcqs, user_ans, widgets>>

ExplainCli ==
    /\ pc = "call"
    /\ pc' = "done"
    /\ impl' = "cli"
    /\ ret' = normalize_explanations(text, mcqs)
    /\ UNCHANGED <<text, data, count, options_per_q, mcqs, user_ans, widgets>>

NextExpl == ExplainApp \/ ExplainCli

SpecExpl == InitExpl /\ [][NextExpl]_vars

(* C8: for any response text and any MCQ list of length m the explanation
   normalization never raises and returns exactly m strings. *)
C8_AlwaysMStrings ==
    pc = "done" => ret.kind = "return" /\ Len(ret.exps) = Len(mcqs)


(***************************************************************************)
(* The Streamlit app (app.py:195-282).  Every action is one run of the     *)
(* script from top to bottom; mcqs and user_ans are st.session_state.mcqs  *)
(* and st.session_state.answers; widgets holds, per question, what the     *)
(* multiselect keyed q<idx>_ms was given and returned in the last run, and  *)
(* whether the installed Streamlit identifies a widget by its key alone.   *)
(***************************************************************************)
(* f"{i+1}) {opt}" for every option *)
Labels(q) == [i \in 1..Len(q.options) |->
                 DecimalText(i) \o <<")", " ">> \o q.options[i]]

(* labels.index(l): zero-based position of the first equal label *)
index(labels, l) ==
    (CHOOSE i \in 1..Len(labels) :
        labels[i] = l /\ \A j \in 1..(i - 1) : labels[j] # l) - 1

NoAnswers(ms) == <<>>

(* [[] for _ in mcqs] *)
FreshAnswers(ms) == [i \in 1..Len(ms) |-> <<>>]

(* pre = [labels[i] for i in answers[idx-1]]: defined when the indices exist *)
PreDefined(ms, ans, idx) ==
    /\ idx <= Len(ans)
    /\ \A k \in 1..Len(ans[idx]) : ans[idx][k] + 1 \in 1..Len(ms[idx].options)

Pre(ms, ans, idx) == [k \in 1..Len(ans[idx]) |-> Labels(ms[idx])[ans[idx][k] + 1]]

(* what st.multiselect returns: the stored value of the widget with this key
   when it is given the same options and default as in the last run; when
   they changed, the default (the widget is new) or, where the key alone
   identifies the widget, the stored value if the options still hold it *)
Picked(wid, idx, labels, pre, keep) ==
    IF idx <= Len(wid) /\ wid[idx].options = labels /\ wid[idx].default = pre
    THEN wid[idx].value
    ELSE IF keep /\ idx <= Len(wid) /\ ToSet(wid[idx].value) \subseteq ToSet(labels)
         THEN wid[idx].value
         ELSE pre

RECURSIVE RenderQuestions(_, _, _, _, _, _)
(* the loop of app.py:225-241 from question idx on; it stops where the
   stored answers have no entry for a question (IndexError) *)
RenderQuestions(ms, ans, wid, keep, idx, shown) ==
    IF idx > Len(ms) \/ ~PreDefined(ms, ans, idx)
    THEN [answers |-> ans, widgets |-> shown]
    ELSE LET labels == Labels(ms[idx])
             pre == Pre(ms, ans, idx)
             picked_labels == Picked(wid, idx, labels, pre, keep)
             selected == sorted([k \in 1..Len(picked_labels) |->
                                    index(labels, picked_labels[k])])
         IN RenderQuestions(ms, [ans EXCEPT ![idx] = selected], wid, keep, idx + 1,
                Append(shown, [options |-> labels, default |-> pre,
                               value |-> picked_labels]))

Render(ms, ans, wid, keep) == RenderQuestions(ms, ans, wid, keep, 1, <<>>)

(* request_mcqs as the app calls it: json.loads fails or yields an array *)
request_mcqs(resp, n, opq) ==
    IF resp.kind = "raise" THEN [kind |-> "raise", exc |-> "JSONDecodeError"]
    ELSE normalize_mcqs("app", resp.v, n, opq)

(* responses of the model: no JSON at all, or an array of these objects *)
AppItems ==
    {Dict({<<" ", "a">>}, RawOptions(2), {}),
     Dict({<<"b">>}, RawOptions(3), {<<[t |-> "int", n |-> 2, s |-> <<>>]>>}),
     Dict({<<" ">>}, RawOptions(2), {<<[t |-> "str", n |-> 0, s |-> <<"x">>]>>})}

AppResponses ==
    {[kind |-> "raise", v |-> <<>>]}
      \cup {[kind |-> "return", v |-> d] :
               d \in {x \in BSeq(AppItems, 2) : Len(x) = 2 => x[1] # x[2]}}

MaxTicks == 2

(* every order in which the user can have ticked up to MaxTicks labels of
   the widget *)
Selections(labels) ==
    {v \in BSeq(ToSet(labels), Min2(MaxTicks, Len(labels))) :
        \A i, j \in 1..Len(v) : i # j => v[i] # v[j]}

InitApp ==
    /\ pc = "start"
    /\ impl = "app"
    /\ mcqs = <<>>
    /\ user_ans = <<>>
    /\ \E b \in BOOLEAN : widgets = [by_key_only |-> b, shown |-> <<>>]
    /\ text = <<>>
    /\ data = <<>>
    /\ count = 0
    /\ options_per_q = 0
    /\ ret = None

(* the Generate button, request_mcqs returning: app.py:210-216, then the
   questions are rendered *)
GenerateOk ==
    \E resp \in AppResponses, num_q \in 1..2, n_opts \in 2..3 :
        LET got == request_mcqs(resp, num_q, n_opts)
            shown == Render(got.mcqs, FreshAnswers(got.mcqs), widgets.shown,
                            widgets.by_key_only)
        IN /\ got.kind = "return"
           /\ pc' = "generated"
           /\ mcqs' = got.mcqs
           /\ user_ans' = shown.answers
           /\ widgets' = [widgets EXCEPT !.shown = shown.widgets]
           /\ ret' = None
           /\ UNCHANGED <<impl, text, data, count, options_per_q>>

(* the Generate button, request_mcqs raising: app.py:217-218, then the
   questions of the session are rendered as in any run *)
GenerateFails ==
    \E resp \in AppResponses, num_q \in 1..2, n_opts \in 2..3 :
        LET got == request_mcqs(resp, num_q, n_opts)
            shown == Render(mcqs, user_ans, widgets.shown, widgets.by_key_only)
        IN /\ got.kind = "raise"
           /\ pc' = "generate_failed"
           /\ user_ans' = shown.answers
           /\ widgets' = [widgets EXCEPT !.shown = shown.widgets]
           /\ ret' = got
           /\ UNCHANGED <<impl, text, data, count, options_per_q, mcqs>>

(* the user changes the selection of one question: a run with no button *)
Select ==
    \E idx \in 1..Len(widgets.shown) :
      \E v \in Selections(widgets.shown[idx].options) :
        LET shown == Render(mcqs, user_ans, [widgets.shown EXCEPT ![idx].value = v],
                            widgets.by_key_only)
        IN /\ mcqs # <<>>
           /\ v # widgets.shown[idx].value
           /\ pc' = "selected"
           /\ user_ans' = shown.answers
           /\ widgets' = [widgets EXCEPT !.shown = shown.widgets]
           /\ ret' = None
           /\ UNCHANGED <<impl, text, data, count, options_per_q, mcqs>>

(* the Clear answers button: the run that sees the button, app.py:251-253,
   and the run st.rerun() starts *)
Clear ==
    LET first == Render(mcqs, user_ans, widgets.shown, widgets.by_key_only)
        second == Render(mcqs, FreshAnswers(mcqs), first.widgets, widgets.by_key_only)
    IN /\ mcqs # <<>>
       /\ pc' = "cleared"
       /\ user_ans' = second.answers
       /\ widgets' = [widgets EXCEPT !.shown = second.widgets]
       /\ ret' = None
       /\ UNCHANGED <<impl, text, data, count, options_per_q, mcqs>>

(* the Check answers button: app.py:255-256 *)
Check ==
    LET shown == Render(mcqs, user_ans, widgets.shown, widgets.by_key_only)
    IN /\ mcqs # <<>>
       /\ pc' = "graded"
       /\ user_ans' = shown.answers
       /\ widgets' = [widgets EXCEPT !.shown = shown.widgets]
       /\ ret' = grade_locally_app(mcqs, shown.answers)
       /\ UNCHANGED <<impl, text, data, count, options_per_q, mcqs>>

NextApp == GenerateOk \/ GenerateFails \/ Select \/ Clear \/ Check

SpecApp == InitApp /\ [][NextApp]_vars

(* one sorted entry of in-range indices per record *)
AnswersFitMcqs ==
    /\ Len(user_ans) = Len(mcqs)
    /\ \A i \in 1..Len(user_ans) :
          /\ \A k \in 1..(Len(user_ans[i]) - 1) : user_ans[i][k] <= user_ans[i][k + 1]
          /\ \A k \in 1..Len(user_ans[i]) :
                user_ans[i][k] \in 0..(Len(mcqs[i].options) - 1)

(* C10: after any sequence of Generate, selection and Clear runs the answers
   list has one sorted entry of in-range indices per record of mcqs, so
   every grading by the app covers every question; a failing Generate leaves
   mcqs and answers as they were. *)
C10_AnswersMatchMcqs ==
    /\ [](AnswersFitMcqs
           /\ (pc = "graded" => Len(ret.results) = ret.total))
    /\ [][pc' = "generate_failed" => (mcqs' = mcqs /\ user_ans' = user_ans)]_vars

(* a failed Generate in a session that holds two questions, one of them
   answered with both of its first two options *)
C10_Witness ==
    /\ pc = "generate_failed"
    /\ Len(mcqs) = 2
    /\ \E i \in 1..2 : user_ans[i] = <<0, 1>>

(***************************************************************************)
(* prompt_multi_indices: the terminal app's answer prompt                  *)
(* (local_gemini_quiz.py:135-155), called by main for one question.        *)
(***************************************************************************)
MaxLineLen == 3

(* the characters a re.split(r"[,\s/]+", ...) match is made of *)
Separators == Whitespace \cup {",", "/"}

(* re.split on maximal runs of separators: the pieces between the runs, an
   empty piece before a leading run and after a trailing one *)
RECURSIVE re_split(_, _, _)
re_split(s, piece, in_run) ==
    IF s = <<>> THEN <<piece>>
    ELSE IF Head(s) \in Separators
         THEN IF in_run THEN re_split(Tail(s), piece, TRUE)
              ELSE <<piece>> \o re_split(Tail(s), <<>>, TRUE)
         ELSE re_split(Tail(s), Append(piece, Head(s)), FALSE)

NonEmpty(p) == p # <<>>

(* any(p < 1 or p > n_options for p in picks) *)
OutOfRange(picks, n_options) ==
    \E i \in 1..Len(picks) : picks[i] < 1 \/ picks[i] > n_options

(* one pass of the while loop on the line input() returned: "continue" with
   the message printed, or "return" with the zero-based list *)
PromptPass(line, n_options) ==
    LET raw == strip(line)
        parts == re_split(raw, <<>>, FALSE)
        named == SelectSeq(parts, NonEmpty)
        coerced == CoerceAll([i \in 1..Len(named) |-> JStr(named[i])])
        picks == SetToSorted(ToSet(coerced.ns))
    IN IF raw = <<>>
       THEN [kind |-> "continue", msg |-> "Please enter at least one option number."]
       ELSE IF coerced.kind = "raise"
       THEN [kind |-> "continue", msg |-> "Only numbers please, e.g., 2 or 1,3"]
       ELSE IF OutOfRange(picks, n_options)
       THEN [kind |-> "continue", msg |-> "Pick numbers between 1 and n_options."]
       ELSE [kind |-> "return", picks |-> [i \in 1..Len(picks) |-> picks[i] - 1]]

(* the characters of the typed lines: option numbers in and out of range,
   the three kinds of separator, and a character that is no number *)
LineChars == {"0", "1", "3", ",", " ", "/", "x"}

Lines == UNION {[1..n -> LineChars] : n \in 0..MaxLineLen}

(* the outcome of a pass for every line and every number of options *)
Passes == {[n_options |-> n, line |-> l, outcome |-> PromptPass(l, n)] :
              n \in 2..3, l \in Lines}

(* main asks one question whose record has options_per_q options *)
InitPrompt ==
    /\ pc = "prompt"
    /\ impl = "cli"
    /\ options_per_q \in 2..3
    /\ mcqs = <<[question |-> <<"q">>, options |-> OptionTexts(options_per_q),
                 correct_indices |-> <<0>>]>>
    /\ user_ans = <<>>
    /\ text = <<>>
    /\ data = <<>>
    /\ count = 0
    /\ widgets = <<>>
    /\ ret = None

(* a pass that ends in one of the three "continue" branches *)
Rejects(msg) ==
    /\ pc = "prompt"
    /\ \E pass \in Passes :
          /\ pass.n_options = Len(mcqs[1].options)
          /\ pass.outcome.kind = "continue"
          /\ pass.outcome.msg = msg
          /\ text' = pass.line
          /\ ret' = [kind |-> "print", msg |-> msg]
    /\ UNCHANGED <<pc, impl, data, count, options_per_q, mcqs, user_ans, widgets>>

PromptBlank == Rejects("Please enter at least one option number.")

PromptNotNumbers == Rejects("Only numbers please, e.g., 2 or 1,3")

PromptOutOfRange == Rejects("Pick numbers between 1 and n_options.")

(* the pass that returns; main appends the list to user_answers *)
PromptReturn ==
    /\ pc = "prompt"
    /\ \E pass \in Passes :
          /\ pass.n_options = Len(mcqs[1].options)
          /\ pass.outcome.kind = "return"
          /\ text' = pass.line
          /\ ret' = pass.outcome
          /\ user_ans' = Append(user_ans, pass.outcome.picks)
    /\ pc' = "done"
    /\ UNCHANGED <<impl, data, count, options_per_q, mcqs, widgets>>

(* input() at the end of the input raises EOFError, which nothing catches *)
PromptEof ==
    /\ pc = "prompt"
    /\ pc' = "done"
    /\ ret' = [kind |-> "raise", exc |-> "EOFError"]
    /\ UNCHANGED <<impl, text, data, count, options_per_q, mcqs, user_ans, widgets>>

NextPrompt ==
    PromptBlank \/ PromptNotNumbers \/ PromptOutOfRange \/ PromptReturn \/ PromptEof

SpecPrompt == InitPrompt /\ [][NextPrompt]_vars

(* the line names no option number: it is blank or made of separators only *)
NoOptionNumber(line) == \A i \in 1..Len(line) : line[i] \in Separators

(* the last pass read a line and repeated the prompt *)
PromptRepeated == pc = "prompt" /\ ret.kind = "print"

PromptReturned == pc = "done" /\ ret.kind = "return"

(* C11: prompt_multi_indices returns only on a line that names at least one
   option number: every list it returns is non-empty, strictly increasing
   and holds only zero-based indices in [0, n_options); a line that is blank
   or made of separators only is rejected and the prompt is repeated. *)
C11_ReturnsNamedOptionsOnly ==
    /\ PromptReturned =>
          /\ ret.picks # <<>>
          /\ StrictlyIncreasing(ret.picks)
          /\ \A i \in 1..Len(ret.picks) :
                ret.picks[i] \in 0..(Len(mcqs[1].options) - 1)
          /\ ~NoOptionNumber(text)
    /\ (ret.kind \in {"print", "return"} /\ NoOptionNumber(text)) => PromptRepeated

=============================================================================
